---- MODULE Spec2Model ----
(***************************************************************************)
(* Evaluation Workbench of the Prompt Dojo: test cases that belong to a    *)
(* prompt, immutable prompt versions, the evaluations table with one       *)
(* result per (test case, prompt version) experiment, the evaluations.run  *)
(* endpoint (fetch, substitute, call the LLM, delete the old row, insert   *)
(* the new row), Run All over a base and a compare version, and the        *)
(* comparison table.                                                       *)
(***************************************************************************)
EXTENDS Integers, Sequences, FiniteSets, TLC

\* Bounds of the model.
MaxTC == 2         \* test cases ever created
MaxVer == 2        \* prompt versions ever created
NumProcs == 2      \* run requests that can be in flight at once
MaxGen == 3        \* calls to the LLM over a behaviour
BatchTC == 3       \* test cases of the prompt in the Run All scenario
MaxRows == 2       \* saved results in the comparison scenario
MaxTplLen == 6     \* tokens of a template given to the Variable Resolver
MaxTimers == 2     \* timers of the note quiz that can be pending at once
MaxOctave == 6     \* highest octave of a note given to generateNoteRange

\* The prompt whose workbench is open, and another prompt.
Prompts == {1, 2}
\* Ids a request can carry: those of the prompts, and one that no prompt has.
PromptIds == Prompts \cup {0}
Procs == 1..NumProcs
Texts == {"A", "B"}

VARIABLES
    testCases,   \* test_cases table: id -> prompt_id, for the rows that exist
    tcSeq,       \* number of test cases ever created (autoincrement id)
    versions,    \* prompt_versions table: rows [prompt, text], oldest first
    evals,       \* evaluations table: set of rows [tc, pv, out]
    genCalls,    \* number of calls made to the LLM so far
    pc,          \* position of each run request
    run,         \* input and progress of each run request in flight
    ret,         \* what the call that returned last gave its caller
    batch,       \* the Run All in progress and its report
    table,       \* the comparison table shown last
    resolver,    \* the template and input given to the Variable Resolver, and its result
    quiz,        \* the note quiz page: its refs and its pending timers
    range        \* one call of generateNoteRange: its arguments, locals and result

vars == <<testCases, tcSeq, versions, evals, genCalls, pc, run, ret, batch, table, resolver,
          quiz, range>>

NoRun == [tc |-> 0, pv |-> 0, call |-> 0, owner |-> "none", abandoned |-> FALSE]
NoRet == [kind |-> "none", out |-> 0]
NoBatch == [state |-> "idle", prompt |-> 0, base |-> 0, cmp |-> 0, force |-> FALSE,
            limit |-> 0, pending |-> {}, report |-> {}]
NoTable == [called |-> FALSE, prompt |-> 0, base |-> 0, cmp |-> 0, rows |-> <<>>]
NoResolve == [tpl |-> <<>>, input |-> <<>>, called |-> FALSE, text |-> <<>>,
              missingInInput |-> {}, missingInTemplate |-> {}, error |-> FALSE]

\* The note quiz (pages/index.vue).  A note "c/4" is its name and its octave.
noteNames == <<"c", "d", "e", "f", "g", "a", "b">>

Note(name, octave) == [name |-> name, octave |-> octave]

\* previousNote before the first note was drawn: the empty string.
NoNote == Note("", 0)

C4 == Note("c", 4)

\* noteNames.indexOf(name), counted from 0, and -1 when the name is not there.
IndexOf(name) ==
    IF \E i \in 1..Len(noteNames) : noteNames[i] = name
    THEN (CHOOSE i \in 1..Len(noteNames) : noteNames[i] = name) - 1
    ELSE -1

\* A name or an octave is missing after the split on "/".
InvalidFormat(startNote, endNote) == startNote.name = "" \/ endNote.name = ""

\* The condition of the while loop: the end of the range is not passed yet.
LoopCondExclusive(currentIndex, currentOctave, endNote) ==
    \/ currentOctave < endNote.octave
    \/ currentOctave = endNote.octave /\ IndexOf(endNote.name) > currentIndex

LoopCond(currentIndex, currentOctave, endNote) ==
    \/ currentOctave < endNote.octave
    \/ currentOctave = endNote.octave /\ IndexOf(endNote.name) >= currentIndex

\* The body of the loop: the note pushed, and the index and octave after it.
Pushed(currentIndex, currentOctave) == Note(noteNames[currentIndex + 1], currentOctave)

NextIndex(currentIndex) ==
    IF currentIndex + 1 >= Len(noteNames) THEN 0 ELSE currentIndex + 1

NextOctave(currentIndex, currentOctave) ==
    IF currentIndex + 1 >= Len(noteNames) THEN currentOctave + 1 ELSE currentOctave

RECURSIVE NotesFrom(_, _, _, _)
NotesFrom(notes, currentIndex, currentOctave, endNote) ==
    IF LoopCond(currentIndex, currentOctave, endNote)
    THEN NotesFrom(Append(notes, Pushed(currentIndex, currentOctave)),
                   NextIndex(currentIndex), NextOctave(currentIndex, currentOctave),
                   endNote)
    ELSE notes

generateNoteRange(startNote, endNote) ==
    IF InvalidFormat(startNote, endNote) \/ IndexOf(startNote.name) = -1
    THEN <<>>
    ELSE NotesFrom(<<>>, IndexOf(startNote.name), startNote.octave, endNote)

trebleNotes == generateNoteRange(Note("f", 3), Note("e", 6))
bassNotes == generateNoteRange(Note("c", 2), Note("e", 4))

\* Delays of the two timers of handleGuess, and the grain of the model's clock.
NewNoteMs == 600
ResetMs == 800
TickMs == 200

\* The refs of the page after setup, before it is mounted; no timer is pending.
QuizInit ==
    [currentNote |-> C4, previousNote |-> NoNote, currentClef |-> "treble",
     clefSetting |-> "treble", feedback |-> "waiting", timers |-> <<>>,
     mounted |-> FALSE]

\* No call of generateNoteRange is under way.
NoRange ==
    [startNote |-> NoNote, endNote |-> NoNote, pc |-> "none", notes |-> <<>>,
     currentIndex |-> 0, currentOctave |-> 0]

\* Rows of the evaluations table for one experiment.
RowsOf(tc, pv) == {r \in evals : r.tc = tc /\ r.pv = pv}

HasEval(tc, pv) == RowsOf(tc, pv) # {}

TestCaseExists(tc) == tc \in DOMAIN testCases

VersionExists(pv) == pv \in 1..Len(versions)

\* Test cases that belong to a prompt (test_cases.prompt_id).
TestCasesOf(prompt) == {tc \in DOMAIN testCases : testCases[tc] = prompt}

Init ==
    /\ testCases = <<>>
    /\ tcSeq = 0
    /\ versions = <<>>
    /\ evals = {}
    /\ genCalls = 0
    /\ pc = [p \in Procs |-> "idle"]
    /\ run = [p \in Procs |-> NoRun]
    /\ ret = NoRet
    /\ batch = NoBatch
    /\ table = NoTable
    /\ quiz = QuizInit
    /\ range = NoRange
    /\ resolver = NoResolve

-----------------------------------------------------------------------------
\* Test Case Registry and Template Store.

\* testCases.create: a new test case for a prompt.
CreateTestCase(prompt) ==
    /\ tcSeq < MaxTC
    /\ tcSeq' = tcSeq + 1
    /\ testCases' = [id \in DOMAIN testCases \cup {tcSeq + 1} |->
                        IF id = tcSeq + 1 THEN prompt ELSE testCases[id]]
    /\ UNCHANGED <<versions, evals, genCalls, pc, run, ret, batch, table, resolver, quiz, range>>

\* Rows that stay in the evaluations table when a test case is deleted.
CascadeDelete(tc) == {r \in evals : r.tc # tc}

\* testCases.delete: deletes the test case and the evaluations that reference it.
DeleteTestCase(tc) ==
    /\ tc \in 1..MaxTC
    /\ IF TestCaseExists(tc)
       THEN /\ testCases' = [id \in DOMAIN testCases \ {tc} |-> testCases[id]]
            /\ evals' = CascadeDelete(tc)
            /\ ret' = [kind |-> "deleted", out |-> 0]
       ELSE /\ ret' = [kind |-> "NotFound", out |-> 0]
            /\ UNCHANGED <<testCases, evals>>
    /\ UNCHANGED <<tcSeq, versions, genCalls, pc, run, batch, table, resolver, quiz, range>>

\* Variant: saving a change overwrites the template of the prompt's latest
\* version when it has one.
CreateVersionInPlace(prompt, text) ==
    /\ Len(versions) < MaxVer
    /\ LET own == {v \in 1..Len(versions) : versions[v].prompt = prompt} IN
       IF own = {}
       THEN versions' = Append(versions, [prompt |-> prompt, text |-> text])
       ELSE versions' = [v \in 1..Len(versions) |->
                           IF v \in own /\ (\A w \in own : w <= v)
                           THEN [prompt |-> prompt, text |-> text]
                           ELSE versions[v]]
    /\ UNCHANGED <<testCases, tcSeq, evals, genCalls, pc, run, ret, batch, table, resolver, quiz, range>>

\* Variant: test cases belong to a version, so a new version starts with none.
CreateVersionOwningTests(prompt, text) ==
    /\ Len(versions) < MaxVer
    /\ versions' = Append(versions, [prompt |-> prompt, text |-> text])
    /\ testCases' = [id \in {tc \in DOMAIN testCases : testCases[tc] # prompt} |->
                        testCases[id]]
    /\ UNCHANGED <<tcSeq, evals, genCalls, pc, run, ret, batch, table, resolver, quiz, range>>

\* Saving a change to a prompt: a new version is appended, none is overwritten.
CreateVersion(prompt, text) ==
    /\ Len(versions) < MaxVer
    /\ versions' = Append(versions, [prompt |-> prompt, text |-> text])
    /\ UNCHANGED <<testCases, tcSeq, evals, genCalls, pc, run, ret, batch, table, resolver, quiz, range>>

\* Versions of a prompt, by their place in the history.
VersionsOf(prompt) == {v \in 1..Len(versions) : versions[v].prompt = prompt}

\* The newest of a set of versions.
Newest(ids) == CHOOSE v \in ids : \A w \in ids : w <= v

\* A version is read by its id.
GetById(v) ==
    /\ ret' = IF VersionExists(v)
              THEN [kind |-> "version", out |-> versions[v].text]
              ELSE [kind |-> "NotFound", out |-> 0]
    /\ UNCHANGED <<testCases, tcSeq, versions, evals, genCalls, pc, run, batch, table, resolver, quiz, range>>

\* The latest version of a prompt is read.
GetLatest(prompt) ==
    /\ ret' = IF VersionsOf(prompt) # {}
              THEN [kind |-> "version", out |-> versions[Newest(VersionsOf(prompt))].text]
              ELSE [kind |-> "NotFound", out |-> 0]
    /\ UNCHANGED <<testCases, tcSeq, versions, evals, genCalls, pc, run, batch, table, resolver, quiz, range>>

-----------------------------------------------------------------------------
\* Evaluation Runner: evaluations.run.

\* Variant: only the test case's input is looked up in step 1.
FetchTestCaseOnly(tc, pv) == TestCaseExists(tc)

\* Step 1: the prompt version's template and the test case's input are fetched.
Fetch(tc, pv) == TestCaseExists(tc) /\ VersionExists(pv)

\* Variant: every run calls the LLM, whether the experiment has a result or not.
ShortCircuitNever(tc, pv, force) == FALSE

\* A run that is not forced reuses the result the experiment already has.
ShortCircuit(tc, pv, force) == ~force /\ HasEval(tc, pv)

\* What a run does once it has fetched its inputs.
Decision(tc, pv, force) ==
    IF ~Fetch(tc, pv) THEN "NotFound"
    ELSE IF ShortCircuit(tc, pv, force) THEN "existing"
    ELSE "generate"

\* The request record of a run that has called the LLM; the output of the
\* call is identified with the number of the call.
NewRun(tc, pv, owner) ==
    [tc |-> tc, pv |-> pv, call |-> genCalls + 1, owner |-> owner, abandoned |-> FALSE]

\* The row a run saves.
NewRow(p) == [tc |-> run[p].tc, pv |-> run[p].pv, out |-> run[p].call]

\* Outcome of one pair in the report of Run All.
ResOf(kind) ==
    CASE kind = "existing" -> "skipped"
      [] kind = "stored" -> "succeeded"
      [] OTHER -> "failed:" \o kind

\* Variant: the first failure ends the Run All.
ReportAborting(b, kind, tc, pv, out) ==
    [b EXCEPT !.report = @ \cup {[tc |-> tc, pv |-> pv, res |-> ResOf(kind), out |-> out]},
              !.pending = IF kind = "GenerationFailed" THEN {} ELSE @]

\* The outcome of one experiment is added to the report of the Run All.
Report(b, kind, tc, pv, out) ==
    [b EXCEPT !.report = @ \cup {[tc |-> tc, pv |-> pv, res |-> ResOf(kind), out |-> out]}]

\* The result of a run reaches its caller: the client that called
\* evaluations.run, or the Run All that started it. The client of an
\* abandoned run is no longer there.
Deliver(p, kind, out) ==
    IF run[p].owner = "batch"
    THEN /\ batch' = Report(batch, kind, run[p].tc, run[p].pv, out)
         /\ UNCHANGED ret
    ELSE /\ ret' = IF run[p].abandoned THEN ret
                   ELSE [kind |-> kind, out |-> out]
         /\ UNCHANGED batch

\* A request is served in the first free slot.
FirstIdle(p) == pc[p] = "idle" /\ \A q \in Procs : q < p => pc[q] # "idle"

\* evaluations.run is called: steps 1 and 2, then the call to the LLM is made.
RunStart(p, tc, pv, force) ==
    /\ FirstIdle(p)
    /\ LET d == Decision(tc, pv, force) IN
       CASE d = "NotFound" ->
              /\ ret' = [kind |-> "NotFound", out |-> 0]
              /\ UNCHANGED <<genCalls, pc, run>>
         [] d = "existing" ->
              /\ \E r \in RowsOf(tc, pv) :
                    ret' = [kind |-> "existing", out |-> r.out]
              /\ UNCHANGED <<genCalls, pc, run>>
         [] OTHER ->
              /\ genCalls < MaxGen
              /\ genCalls' = genCalls + 1
              /\ pc' = [pc EXCEPT ![p] = "generating"]
              /\ run' = [run EXCEPT ![p] = NewRun(tc, pv, "caller")]
              /\ UNCHANGED ret
    /\ UNCHANGED <<testCases, tcSeq, versions, evals, batch, table, resolver, quiz, range>>

\* Step 3: the LLM answers.
GenSucceed(p) ==
    /\ pc[p] = "generating"
    /\ pc' = [pc EXCEPT ![p] = "deleting"]
    /\ UNCHANGED <<testCases, tcSeq, versions, evals, genCalls, run, ret, batch, table, resolver, quiz, range>>

\* Variant: step 4 is left out.
DeleteNone(tc, pv) == evals

\* Rows left by step 4.
DeleteMatching(tc, pv) == {r \in evals : ~(r.tc = tc /\ r.pv = pv)}

\* Variant: a failed call to the LLM is made again by the run.
GenFailRetries(p) ==
    /\ pc[p] = "generating"
    /\ genCalls < MaxGen
    /\ genCalls' = genCalls + 1
    /\ run' = [run EXCEPT ![p].call = genCalls + 1]
    /\ UNCHANGED <<testCases, tcSeq, versions, evals, pc, ret, batch, table, resolver, quiz, range>>

\* Variant: the old row is deleted before the LLM is called, so a failed call
\* has already removed it.
GenFailAfterDelete(p) ==
    /\ pc[p] = "generating"
    /\ pc' = [pc EXCEPT ![p] = "idle"]
    /\ run' = [run EXCEPT ![p] = NoRun]
    /\ Deliver(p, "GenerationFailed", 0)
    /\ evals' = DeleteMatching(run[p].tc, run[p].pv)
    /\ UNCHANGED <<testCases, tcSeq, versions, genCalls, table, resolver, quiz, range>>

\* Step 3: the call to the LLM fails; steps 4 and 5 are not reached.
GenFail(p) ==
    /\ pc[p] = "generating"
    /\ pc' = [pc EXCEPT ![p] = "idle"]
    /\ run' = [run EXCEPT ![p] = NoRun]
    /\ Deliver(p, "GenerationFailed", 0)
    /\ UNCHANGED <<testCases, tcSeq, versions, evals, genCalls, table, resolver, quiz, range>>

\* Variant: step 4 deletes the rows of the test case, for every version.
DeleteOldOfTestCase(p) ==
    /\ pc[p] = "deleting"
    /\ evals' = {r \in evals : r.tc # run[p].tc}
    /\ pc' = [pc EXCEPT ![p] = "inserting"]
    /\ UNCHANGED <<testCases, tcSeq, versions, genCalls, run, ret, batch, table, resolver, quiz, range>>

\* Step 4: delete any existing row of the experiment.
DeleteOld(p) ==
    /\ pc[p] = "deleting"
    /\ evals' = DeleteMatching(run[p].tc, run[p].pv)
    /\ pc' = [pc EXCEPT ![p] = "inserting"]
    /\ UNCHANGED <<testCases, tcSeq, versions, genCalls, run, ret, batch, table, resolver, quiz, range>>

\* Step 5: insert the new row.
InsertNew(p) ==
    /\ pc[p] = "inserting"
    /\ evals' = evals \cup {NewRow(p)}
    /\ pc' = [pc EXCEPT ![p] = "idle"]
    /\ run' = [run EXCEPT ![p] = NoRun]
    /\ Deliver(p, "stored", run[p].call)
    /\ UNCHANGED <<testCases, tcSeq, versions, genCalls, table, resolver, quiz, range>>

\* Variant: the request stops where it is when its client leaves.
AbandonKills(p) ==
    /\ pc[p] # "idle"
    /\ run[p].owner = "caller"
    /\ ~run[p].abandoned
    /\ pc' = [pc EXCEPT ![p] = "idle"]
    /\ run' = [run EXCEPT ![p].abandoned = TRUE]
    /\ UNCHANGED <<testCases, tcSeq, versions, evals, genCalls, ret, batch, table, resolver, quiz, range>>

\* The client leaves while its run is in flight; the request goes on.
Abandon(p) ==
    /\ pc[p] # "idle"
    /\ run[p].owner = "caller"
    /\ ~run[p].abandoned
    /\ run' = [run EXCEPT ![p].abandoned = TRUE]
    /\ UNCHANGED <<testCases, tcSeq, versions, evals, genCalls, pc, ret, batch, table, resolver, quiz, range>>

-----------------------------------------------------------------------------
\* Run All Tests.

\* The experiments of a Run All: each test case of the prompt, against the
\* base version and against the compare version.
BatchPairs(prompt, base, cmp) ==
    {<<tc, v>> : tc \in TestCasesOf(prompt), v \in {base, cmp}}

\* Run All is started with the concurrency limit it is configured with.
BatchStart(prompt, base, cmp, force) ==
    /\ batch.state # "running"
    /\ \E limit \in 1..NumProcs :
          batch' = [state |-> "running", prompt |-> prompt, base |-> base, cmp |-> cmp,
                    force |-> force, limit |-> limit,
                    pending |-> BatchPairs(prompt, base, cmp), report |-> {}]
    /\ UNCHANGED <<testCases, tcSeq, versions, evals, genCalls, pc, run, ret, table, resolver, quiz, range>>

\* Variant: Run All reruns the experiments that have a result.
SkipNever(tc, pv, force) == FALSE

\* Run All does not overwrite existing results unless a rerun is forced.
SkipExisting(tc, pv, force) == ~force /\ HasEval(tc, pv)

\* What Run All does with one of its experiments.
BatchDecision(tc, pv, force) ==
    IF ~Fetch(tc, pv) THEN "NotFound"
    ELSE IF SkipExisting(tc, pv, force) THEN "existing"
    ELSE "generate"

\* Runs of the Run All that are in flight.
BatchInFlight == {q \in Procs : pc[q] # "idle" /\ run[q].owner = "batch"}

\* Number of Run All tasks that may be in flight at the same time.
ConcurrencyLimit == batch.limit

\* Variant: Run All starts a task whenever a request slot is free.
UnderLimitAlways == TRUE

\* Run All starts a task only while it is under its concurrency limit.
UnderLimit == Cardinality(BatchInFlight) < ConcurrencyLimit

\* Run All goes through its experiments test case by test case.
PairBefore(a, b) == a[1] < b[1] \/ (a[1] = b[1] /\ a[2] <= b[2])

\* Run All starts the run of the next of its pending experiments.
BatchDispatch(p, pair) ==
    /\ batch.state = "running"
    /\ pair \in batch.pending
    /\ \A other \in batch.pending : PairBefore(pair, other)
    /\ FirstIdle(p)
    /\ UnderLimit
    /\ LET tc == pair[1]
           pv == pair[2]
           d == BatchDecision(tc, pv, batch.force)
           b == [batch EXCEPT !.pending = @ \ {pair}]
       IN CASE d = "NotFound" ->
                 /\ batch' = Report(b, "NotFound", tc, pv, 0)
                 /\ UNCHANGED <<genCalls, pc, run>>
            [] d = "existing" ->
                 /\ \E r \in RowsOf(tc, pv) : batch' = Report(b, "existing", tc, pv, r.out)
                 /\ UNCHANGED <<genCalls, pc, run>>
            [] OTHER ->
                 /\ genCalls < MaxGen
                 /\ genCalls' = genCalls + 1
                 /\ pc' = [pc EXCEPT ![p] = "generating"]
                 /\ run' = [run EXCEPT ![p] = NewRun(tc, pv, "batch")]
                 /\ batch' = b
    /\ UNCHANGED <<testCases, tcSeq, versions, evals, ret, table, resolver, quiz, range>>

\* Every experiment of the Run All has an outcome: the report is returned.
BatchFinish ==
    /\ batch.state = "running"
    /\ batch.pending = {}
    /\ BatchInFlight = {}
    /\ batch' = [batch EXCEPT !.state = "done"]
    /\ UNCHANGED <<testCases, tcSeq, versions, evals, genCalls, pc, run, ret, table, resolver, quiz, range>>

-----------------------------------------------------------------------------
\* Comparison table of the Evaluation Workbench.

\* Shown in a cell whose experiment has no saved result.
NotYetRun == [tc |-> 0, pv |-> 0, out |-> 0]

RECURSIVE InCreationOrder(_)
InCreationOrder(ids) ==
    IF ids = {} THEN <<>>
    ELSE LET first == CHOOSE id \in ids : \A other \in ids : id <= other
         IN <<first>> \o InCreationOrder(ids \ {first})

\* The saved result placed in a cell, or the marker.
Cell(tc, pv) ==
    IF HasEval(tc, pv)
    THEN CHOOSE r \in RowsOf(tc, pv) : \A other \in RowsOf(tc, pv) : r.out <= other.out
    ELSE NotYetRun

\* Variant: the table is built from the saved results of the base version.
CompareBaseRunOnly(prompt, base, cmp) ==
    LET ids == InCreationOrder({tc \in TestCasesOf(prompt) : HasEval(tc, base)})
    IN [i \in 1..Len(ids) |->
          [testCase |-> ids[i], base |-> Cell(ids[i], base), compare |-> Cell(ids[i], cmp)]]

\* One row per test case of the prompt, with the base and the compare output.
Compare(prompt, base, cmp) ==
    LET ids == InCreationOrder(TestCasesOf(prompt))
    IN [i \in 1..Len(ids) |->
          [testCase |-> ids[i], base |-> Cell(ids[i], base), compare |-> Cell(ids[i], cmp)]]

PromptExists(prompt) == prompt \in Prompts

\* The comparison fails when the prompt whose data it fetches does not exist;
\* no table is shown then.
CompareFails(prompt) == ~PromptExists(prompt)

\* Variant: the comparison saves an empty result for each experiment of the
\* base version that has none.
CompareCallSavesGaps(prompt, base, cmp) ==
    /\ IF CompareFails(prompt)
       THEN /\ ret' = [kind |-> "NotFound", out |-> 0]
            /\ table' = NoTable
            /\ UNCHANGED evals
       ELSE /\ ret' = [kind |-> "rows", out |-> 0]
            /\ table' = [called |-> TRUE, prompt |-> prompt, base |-> base, cmp |-> cmp,
                         rows |-> Compare(prompt, base, cmp)]
            /\ evals' = evals \cup {[tc |-> tc, pv |-> base, out |-> 0] :
                                       tc \in {t \in TestCasesOf(prompt) : ~HasEval(t, base)}}
    /\ UNCHANGED <<testCases, tcSeq, versions, genCalls, pc, run, batch, resolver, quiz, range>>

\* The workbench maps the fetched data to the comparison table.
CompareCall(prompt, base, cmp) ==
    /\ IF CompareFails(prompt)
       THEN /\ ret' = [kind |-> "NotFound", out |-> 0]
            /\ table' = NoTable
       ELSE /\ ret' = [kind |-> "rows", out |-> 0]
            /\ table' = [called |-> TRUE, prompt |-> prompt, base |-> base, cmp |-> cmp,
                         rows |-> Compare(prompt, base, cmp)]
    /\ UNCHANGED <<testCases, tcSeq, versions, evals, genCalls, pc, run, batch, resolver, quiz, range>>

-----------------------------------------------------------------------------
\* Variable Resolver: the substitution of step 2 of evaluations.run.

\* A template is a sequence of tokens: the two braces of a placeholder and
\* words. A word between an opening and a closing brace is a variable name;
\* anywhere else it is literal text.
Braces == {"{{", "}}"}
Words == {"user", "store"}
Tokens == Braces \cup Words
Templates == UNION {[1..n -> Tokens] : n \in 0..MaxTplLen}

\* The input JSON of a test case: any keys, each with a value.
Keys == {"user", "store", "extra"}
Sample == [k \in Keys |-> CASE k = "user" -> "John"
                            [] k = "store" -> "MegaMart"
                            [] OTHER -> "ignored"]
Values == {Sample[k] : k \in Keys}
\* The test case gives a value to some of the keys, to all or to none.
Inputs == {[k \in ks |-> Sample[k]] : ks \in SUBSET Keys}

\* A placeholder {{name}} starts at token i; an opening brace that is not
\* followed by a name and a closing brace is literal text.
PlaceholderAt(tpl, i) ==
    /\ i + 2 <= Len(tpl)
    /\ tpl[i] = "{{"
    /\ tpl[i + 1] \notin Braces
    /\ tpl[i + 2] = "}}"

\* Variant: only the first placeholder of a variable is replaced.
ResolvesFirstOnly(tpl, input, i) ==
    /\ tpl[i + 1] \in DOMAIN input
    /\ \A j \in 1..(i - 1) : ~(PlaceholderAt(tpl, j) /\ tpl[j + 1] = tpl[i + 1])

\* The placeholder at i names a variable the input has.
Resolves(tpl, input, i) == tpl[i + 1] \in DOMAIN input

\* Variant: a placeholder whose variable the input lacks is removed.
KeptNothing(tpl, i) == <<>>

\* A placeholder whose variable the input lacks stays in the text as written.
Kept(tpl, i) == <<tpl[i], tpl[i + 1], tpl[i + 2]>>

\* The scan of the template from token i on: the rendered text.
RECURSIVE Scan(_, _, _)
Scan(tpl, input, i) ==
    IF i > Len(tpl) THEN <<>>
    ELSE IF PlaceholderAt(tpl, i)
         THEN (IF Resolves(tpl, input, i) THEN <<input[tpl[i + 1]]>> ELSE Kept(tpl, i))
                 \o Scan(tpl, input, i + 3)
         ELSE <<tpl[i]>> \o Scan(tpl, input, i + 1)

\* The variable names the scan finds from token i on.
RECURSIVE Found(_, _)
Found(tpl, i) ==
    IF i > Len(tpl) THEN {}
    ELSE IF PlaceholderAt(tpl, i) THEN {tpl[i + 1]} \cup Found(tpl, i + 3)
         ELSE Found(tpl, i + 1)

\* Rendered text and the report of the variables that did not match.
Resolve(tpl, input) ==
    [text |-> Scan(tpl, input, 1),
     missingInInput |-> Found(tpl, 1) \ DOMAIN input,
     missingInTemplate |-> DOMAIN input \ Found(tpl, 1),
     error |-> FALSE]

\* The resolver is applied to the template and the input it is given.
ResolveCall ==
    /\ ~resolver.called
    /\ LET res == Resolve(resolver.tpl, resolver.input) IN
       resolver' = [resolver EXCEPT !.called = TRUE, !.text = res.text,
                                    !.missingInInput = res.missingInInput,
                                    !.missingInTemplate = res.missingInTemplate,
                                    !.error = res.error]
    /\ UNCHANGED <<testCases, tcSeq, versions, evals, genCalls, pc, run, ret, batch, table,
                   quiz, range>>

-----------------------------------------------------------------------------
\* Requests for evaluations.run and for the test case and version endpoints,
\* arriving at any time.
Next ==
    \/ CreateTestCase(1)
    \/ \E tc \in 1..MaxTC : DeleteTestCase(tc)
    \/ CreateVersion(1, "A")
    \/ \E p \in Procs, tc \in 1..MaxTC, pv \in 1..MaxVer, force \in BOOLEAN :
          RunStart(p, tc, pv, force)
    \/ \E p \in Procs : GenSucceed(p)
    \/ \E p \in Procs : GenFail(p)
    \/ \E p \in Procs : DeleteOld(p)
    \/ \E p \in Procs : InsertNew(p)
    \/ \E p \in Procs : Abandon(p)

Spec == Init /\ [][Next]_vars

\* The LLM answers or fails each call made to it, and the storage steps of a
\* run are taken.
FairRuns ==
    /\ \A p \in Procs : WF_vars(GenSucceed(p) \/ GenFail(p))
    /\ \A p \in Procs : WF_vars(DeleteOld(p))
    /\ \A p \in Procs : WF_vars(InsertNew(p))

SpecFair == Init /\ [][Next]_vars /\ FairRuns

\* A client that calls evaluations.run again only once its last call returned.
AllIdle == \A q \in Procs : pc[q] = "idle"

SeqRunStart(p, tc, pv, force) == AllIdle /\ RunStart(p, tc, pv, force)

NextSeq ==
    \/ CreateTestCase(1)
    \/ \E tc \in 1..MaxTC : DeleteTestCase(tc)
    \/ CreateVersion(1, "A")
    \/ \E p \in Procs, tc \in 1..MaxTC, pv \in 1..MaxVer, force \in BOOLEAN :
          SeqRunStart(p, tc, pv, force)
    \/ \E p \in Procs : GenSucceed(p)
    \/ \E p \in Procs : GenFail(p)
    \/ \E p \in Procs : DeleteOld(p)
    \/ \E p \in Procs : InsertNew(p)

SpecSeq == Init /\ [][NextSeq]_vars

\* Run All on a prompt that has BatchTC test cases and two versions, next to
\* a prompt with one test case.
InitBatch ==
    /\ testCases = [id \in 1..(BatchTC + 1) |-> IF id <= BatchTC THEN 1 ELSE 2]
    /\ tcSeq = BatchTC + 1
    /\ versions = <<[prompt |-> 1, text |-> "A"], [prompt |-> 1, text |-> "B"]>>
    /\ evals = {}
    /\ genCalls = 0
    /\ pc = [p \in Procs |-> "idle"]
    /\ run = [p \in Procs |-> NoRun]
    /\ ret = NoRet
    /\ batch = NoBatch
    /\ table = NoTable
    /\ quiz = QuizInit
    /\ range = NoRange
    /\ resolver = NoResolve

NextBatch ==
    \/ \E prompt \in Prompts, base \in 1..2, cmp \in 1..2, force \in BOOLEAN :
          BatchStart(prompt, base, cmp, force)
    \/ \E p \in Procs, pair \in batch.pending : BatchDispatch(p, pair)
    \/ \E p \in Procs : GenSucceed(p)
    \/ \E p \in Procs : GenFail(p)
    \/ \E p \in Procs : DeleteOld(p)
    \/ \E p \in Procs : InsertNew(p)
    \/ BatchFinish

SpecBatch == InitBatch /\ [][NextBatch]_vars

\* Run All with its tasks scheduled: a pending experiment is started when a
\* slot under the limit is free, the LLM answers or fails each call, the
\* storage steps of a run are taken, and the report is returned.
FairBatch ==
    /\ WF_vars(\E p \in Procs, pair \in batch.pending : BatchDispatch(p, pair))
    /\ \A p \in Procs : WF_vars(GenSucceed(p) \/ GenFail(p))
    /\ \A p \in Procs : WF_vars(DeleteOld(p))
    /\ \A p \in Procs : WF_vars(InsertNew(p))
    /\ WF_vars(BatchFinish)

SpecBatchFair == InitBatch /\ [][NextBatch]_vars /\ FairBatch

\* The workbench of one prompt: test cases and versions are added, single
\* experiments are run one after the other, and the comparison table is shown.
NextWorkbench ==
    \/ CreateTestCase(1)
    \/ CreateVersion(1, "A")
    \/ \E p \in Procs, tc \in 1..MaxTC, pv \in 1..MaxVer, force \in BOOLEAN :
          SeqRunStart(p, tc, pv, force)
    \/ \E p \in Procs : GenSucceed(p)
    \/ \E p \in Procs : GenFail(p)
    \/ \E p \in Procs : DeleteOld(p)
    \/ \E p \in Procs : InsertNew(p)
    \/ \E base \in 1..MaxVer, cmp \in 1..MaxVer : CompareCall(1, base, cmp)

SpecWorkbench == Init /\ [][NextWorkbench]_vars

\* The Variable Resolver on any template and any input.
InitResolve ==
    /\ testCases = <<>>
    /\ tcSeq = 0
    /\ versions = <<>>
    /\ evals = {}
    /\ genCalls = 0
    /\ pc = [p \in Procs |-> "idle"]
    /\ run = [p \in Procs |-> NoRun]
    /\ ret = NoRet
    /\ batch = NoBatch
    /\ table = NoTable
    /\ quiz = QuizInit
    /\ range = NoRange
    /\ resolver \in {[NoResolve EXCEPT !.tpl = tpl, !.input = input] :
                         tpl \in Templates, input \in Inputs}

NextResolve == ResolveCall

SpecResolve == InitResolve /\ [][NextResolve]_vars

\* The version history and the test suite of the prompts, edited and read.
NextStore ==
    \/ \E prompt \in Prompts : CreateTestCase(prompt)
    \/ \E tc \in 1..MaxTC : DeleteTestCase(tc)
    \/ \E prompt \in Prompts, text \in Texts : CreateVersion(prompt, text)
    \/ \E v \in 0..MaxVer : GetById(v)
    \/ \E prompt \in Prompts : GetLatest(prompt)

SpecStore == Init /\ [][NextStore]_vars

\* The comparison table over the stores the workbench can hold: any test cases
\* of the prompts, two versions, any saved results.
AllRows == [tc : 1..MaxTC, pv : 1..MaxVer, out : 1..2]

InitCompare ==
    /\ testCases \in [1..MaxTC -> Prompts]
    /\ tcSeq = MaxTC
    /\ versions = [v \in 1..MaxVer |-> [prompt |-> 1, text |-> "A"]]
    /\ evals \in {rows \in SUBSET AllRows : Cardinality(rows) <= MaxRows}
    /\ genCalls = 2
    /\ pc = [p \in Procs |-> "idle"]
    /\ run = [p \in Procs |-> NoRun]
    /\ ret = NoRet
    /\ batch = NoBatch
    /\ table = NoTable
    /\ quiz = QuizInit
    /\ range = NoRange
    /\ resolver = NoResolve

\* Version ids chosen in the workbench, and one for a version that is not there.
VersionIds == 0..MaxVer

\* The page is loaded once over the store it finds.
LoadCompare(prompt, base, cmp) ==
    /\ ~table.called
    /\ ret = NoRet
    /\ CompareCall(prompt, base, cmp)

NextCompare ==
    \E prompt \in PromptIds, base \in VersionIds, cmp \in VersionIds :
        LoadCompare(prompt, base, cmp)

SpecCompare == InitCompare /\ [][NextCompare]_vars

-----------------------------------------------------------------------------
\* The note quiz: generateNewNote, handleGuess, the clef radios and the timers.

notePool(clef) == IF clef = "treble" THEN trebleNotes ELSE bassNotes

\* A variant that keeps the clef on display instead of reading the setting.
finalClefShown(q) == q.currentClef

finalClef(q) == q.clefSetting

\* A variant that does not take the current note out of the pool.
availableNotesAll(pool, currentNote) == pool

availableNotes(pool, currentNote) == SelectSeq(pool, LAMBDA note : note # currentNote)

notesToChooseFrom(pool, currentNote) ==
    IF Len(availableNotes(pool, currentNote)) > 0
    THEN availableNotes(pool, currentNote)
    ELSE pool

\* The states generateNewNote can leave the page in: one for every value of
\* randomIndex, and the fallback "c/4" when nothing was selected.
generateNewNote(q) ==
    LET choice == notesToChooseFrom(notePool(finalClef(q)), q.currentNote)
        drawn(selectedNote) ==
            [q EXCEPT !.feedback = "waiting", !.currentClef = finalClef(q),
                      !.previousNote = q.currentNote, !.currentNote = selectedNote]
    IN  IF Len(choice) > 0
        THEN {drawn(choice[randomIndex]) : randomIndex \in 1..Len(choice)}
        ELSE {drawn(C4)}

\* A variant that never registers the callback.
setTimeoutLost(timers, kind, ms) == timers

\* setTimeout: the callback is due after ms milliseconds.
setTimeout(timers, kind, ms) == Append(timers, [kind |-> kind, left |-> ms \div TickMs])

handleGuess(q, guess) ==
    IF q.feedback = "correct"
    THEN q
    ELSE IF guess = q.currentNote.name
         THEN [q EXCEPT !.feedback = "correct",
                        !.timers = setTimeout(q.timers, "newNote", NewNoteMs)]
         ELSE [q EXCEPT !.feedback = "incorrect",
                        !.timers = setTimeout(q.timers, "reset", ResetMs)]

notQuiz == <<testCases, tcSeq, versions, evals, genCalls, pc, run, ret, batch, table,
             resolver, range>>

\* onMounted: the first note is drawn.
Mounted ==
    /\ ~quiz.mounted
    /\ quiz' \in generateNewNote([quiz EXCEPT !.mounted = TRUE])
    /\ UNCHANGED notQuiz

\* A note button is clicked or a mapped key is pressed.
Guess(guess) ==
    /\ quiz.mounted
    /\ quiz.feedback # "correct" => Len(quiz.timers) < MaxTimers
    /\ quiz' = handleGuess(quiz, guess)
    /\ UNCHANGED notQuiz

\* The other clef radio is selected: v-model stores it, then @change runs.
ClefChange(clef) ==
    /\ quiz.mounted
    /\ clef # quiz.clefSetting
    /\ quiz' \in generateNewNote([quiz EXCEPT !.clefSetting = clef])
    /\ UNCHANGED notQuiz

\* Time passes while no callback is due.
Tick ==
    /\ quiz.timers # <<>>
    /\ \A i \in 1..Len(quiz.timers) : quiz.timers[i].left > 0
    /\ quiz' = [quiz EXCEPT !.timers =
                    [i \in 1..Len(quiz.timers) |->
                        [quiz.timers[i] EXCEPT !.left = quiz.timers[i].left - 1]]]
    /\ UNCHANGED notQuiz

\* The timer that runs next: due, and registered before every other due one.
TimerDue(i) ==
    /\ quiz.timers[i].left = 0
    /\ \A j \in 1..(i - 1) : quiz.timers[j].left > 0

Without(timers, i) == SubSeq(timers, 1, i - 1) \o SubSeq(timers, i + 1, Len(timers))

\* The callback of a correct guess runs generateNewNote.
FireNewNote ==
    /\ \E i \in 1..Len(quiz.timers) :
        /\ TimerDue(i)
        /\ quiz.timers[i].kind = "newNote"
        /\ quiz' \in generateNewNote([quiz EXCEPT !.timers = Without(quiz.timers, i)])
    /\ UNCHANGED notQuiz

\* The callback of an incorrect guess sets feedback back to "waiting".
FireReset ==
    /\ \E i \in 1..Len(quiz.timers) :
        /\ TimerDue(i)
        /\ quiz.timers[i].kind = "reset"
        /\ quiz' = [quiz EXCEPT !.feedback = "waiting",
                                !.timers = Without(quiz.timers, i)]
    /\ UNCHANGED notQuiz

NextQuiz ==
    \/ Mounted
    \/ \E guess \in {noteNames[i] : i \in 1..Len(noteNames)} : Guess(guess)
    \/ \E clef \in {"treble", "bass"} : ClefChange(clef)
    \/ Tick
    \/ FireNewNote
    \/ FireReset

SpecQuiz == Init /\ [][NextQuiz]_vars

\* Time passes and due callbacks run.
FairQuiz ==
    /\ WF_vars(Mounted)
    /\ WF_vars(Tick)
    /\ WF_vars(FireNewNote)
    /\ WF_vars(FireReset)

\* Guesses and timers only: the clef radios are left alone.
NextGuess ==
    \/ Mounted
    \/ \E guess \in {noteNames[i] : i \in 1..Len(noteNames)} : Guess(guess)
    \/ Tick
    \/ FireNewNote
    \/ FireReset

SpecGuess == Init /\ [][NextGuess]_vars

\* The same, with time passing and due callbacks running.
SpecGuessFair == Init /\ [][NextGuess]_vars /\ FairQuiz

-----------------------------------------------------------------------------
\* generateNoteRange, one step of its code at a time.

RangeNames == {noteNames[i] : i \in 1..Len(noteNames)} \cup {"h", ""}
RangeNotes == {Note(name, octave) : name \in RangeNames, octave \in 2..MaxOctave}

InitRange ==
    /\ testCases = <<>>
    /\ tcSeq = 0
    /\ versions = <<>>
    /\ evals = {}
    /\ genCalls = 0
    /\ pc = [p \in Procs |-> "idle"]
    /\ run = [p \in Procs |-> NoRun]
    /\ ret = NoRet
    /\ batch = NoBatch
    /\ table = NoTable
    /\ resolver = NoResolve
    /\ quiz = QuizInit
    /\ range \in {[NoRange EXCEPT !.startNote = startNote, !.endNote = endNote,
                                  !.pc = "entry"] :
                      startNote \in RangeNotes, endNote \in RangeNotes}

notRange == <<testCases, tcSeq, versions, evals, genCalls, pc, run, ret, batch, table,
              resolver, quiz>>

\* The checks before the loop: a missing part or an unknown start name returns [].
generateNoteRangeEntry ==
    /\ range.pc = "entry"
    /\ IF InvalidFormat(range.startNote, range.endNote)
          \/ IndexOf(range.startNote.name) = -1
       THEN range' = [range EXCEPT !.pc = "done"]
       ELSE range' = [range EXCEPT !.pc = "loop",
                                   !.currentIndex = IndexOf(range.startNote.name),
                                   !.currentOctave = range.startNote.octave]
    /\ UNCHANGED notRange

\* One test of the while condition: an iteration, or the return.
generateNoteRangeLoop ==
    /\ range.pc = "loop"
    /\ IF LoopCond(range.currentIndex, range.currentOctave, range.endNote)
       THEN range' = [range EXCEPT
                !.notes = Append(@, Pushed(range.currentIndex, range.currentOctave)),
                !.currentIndex = NextIndex(range.currentIndex),
                !.currentOctave = NextOctave(range.currentIndex, range.currentOctave)]
       ELSE range' = [range EXCEPT !.pc = "done"]
    /\ UNCHANGED notRange

NextRange ==
    \/ generateNoteRangeEntry
    \/ generateNoteRangeLoop

\* The call keeps running until it returns.
SpecRangeFair == InitRange /\ [][NextRange]_vars /\ WF_vars(NextRange)

-----------------------------------------------------------------------------
\* Properties.

Pairs == (1..MaxTC) \X (1..MaxVer)

\* Rows of one experiment, stated on the table itself.
Saved(tc, pv) == {r \in evals : r.tc = tc /\ r.pv = pv}

\* The same in the state a step leads to.
SavedNext(tc, pv) == {r \in evals' : r.tc = tc /\ r.pv = pv}

\* C1: in every reachable state the evaluations table holds at most one row
\* for each (test case, prompt version) pair.
AtMostOnePerPair == \A pair \in Pairs : Cardinality(Saved(pair[1], pair[2])) <= 1

ForceRerunOverwrite ==
    [][\A p \in Procs :
         pc[p] = "inserting" /\ pc'[p] = "idle" =>
            /\ SavedNext(run[p].tc, run[p].pv) =
                  {[tc |-> run[p].tc, pv |-> run[p].pv, out |-> genCalls]}
            /\ run[p].call = genCalls
            /\ genCalls' = genCalls
            /\ ret' = [kind |-> "stored", out |-> genCalls]]_vars

\* A forced rerun after a first run of the only pair: one row, the second output.
ForceRerunReached ==
    /\ AllIdle
    /\ tcSeq = 1
    /\ Len(versions) = 1
    /\ genCalls = 2
    /\ evals = {[tc |-> 1, pv |-> 1, out |-> 2]}
    /\ ret = [kind |-> "stored", out |-> 2]

\* C4: when the call to the LLM fails, the run ends there: nothing is written
\* to the evaluations table, no further call is made, and the caller is given
\* GenerationFailed.
GenerationFailedNoWrite ==
    [][\A p \in Procs :
         pc[p] = "generating" /\ pc'[p] = "idle" =>
            /\ evals' = evals
            /\ genCalls' = genCalls
            /\ (run[p].owner = "caller" /\ ~run[p].abandoned =>
                  ret' = [kind |-> "GenerationFailed", out |-> 0])]_vars

\* A forced rerun of the only pair failed: the first result is still there.
GenerationFailedReached ==
    /\ AllIdle
    /\ tcSeq = 1
    /\ Len(versions) = 1
    /\ genCalls = 2
    /\ evals = {[tc |-> 1, pv |-> 1, out |-> 1]}
    /\ ret = [kind |-> "GenerationFailed", out |-> 0]

\* C5: a pair that has a saved result keeps having one at every step, unless
\* its test case is deleted.
NoTransientMissing ==
    [][\A pair \in Pairs :
         Saved(pair[1], pair[2]) # {} /\ pair[1] \in DOMAIN testCases' =>
            SavedNext(pair[1], pair[2]) # {}]_vars

\* C6: once the runs have returned, each pair they saved holds exactly one
\* row, the output of one of the calls made.
ConcurrentRunsOneRow ==
    AllIdle =>
       \A pair \in Pairs :
          /\ Cardinality(Saved(pair[1], pair[2])) <= 1
          /\ \A r \in Saved(pair[1], pair[2]) : r.out \in 1..genCalls

PairsOfBatch ==
    {<<tc, v>> : tc \in {t \in DOMAIN testCases : testCases[t] = batch.prompt},
                 v \in {batch.base, batch.cmp}}

ReportedPairs == {<<r.tc, r.pv>> : r \in batch.report}

InFlightPairs ==
    {<<run[q].tc, run[q].pv>> : q \in {x \in Procs : pc[x] # "idle" /\ run[x].owner = "batch"}}

\* C8: a failed experiment does not end the Run All: while it runs every
\* experiment is pending, in flight or reported; when it is done every
\* experiment has one outcome; and every experiment reported succeeded has its
\* row in the evaluations table.
BatchPartialFailure ==
    /\ batch.state = "running" =>
          ReportedPairs \cup batch.pending \cup InFlightPairs = PairsOfBatch
    /\ batch.state = "done" => ReportedPairs = PairsOfBatch
    /\ \A r \in batch.report :
          /\ r.res \in {"skipped", "succeeded", "failed:GenerationFailed", "failed:NotFound"}
          /\ r.res = "succeeded" => [tc |-> r.tc, pv |-> r.pv, out |-> r.out] \in evals
          /\ \A other \in batch.report : other.tc = r.tc /\ other.pv = r.pv => other = r

\* Three test cases, one failed call: two succeeded and saved, one failed.
BatchPartialFailureReached ==
    /\ batch.state = "done"
    /\ batch.prompt = 1
    /\ Cardinality(batch.report) = 3
    /\ Cardinality({r \in batch.report : r.res = "succeeded"}) = 2
    /\ Cardinality({r \in batch.report : r.res = "failed:GenerationFailed"}) = 1
    /\ Cardinality(evals) = 2

\* C9: a Run All covers the test cases of its prompt against the base and the
\* compare version; when it is not forced, an experiment that has a saved
\* result is reported skipped, with no call to the LLM and the table left as it
\* is, and an experiment without one is run.
BatchSkipsExisting ==
    [][/\ \A prompt \in Prompts, base \in 1..MaxVer, cmp \in 1..MaxVer, force \in BOOLEAN :
            BatchStart(prompt, base, cmp, force) =>
               batch'.pending =
                  {pair \in (DOMAIN testCases) \X {base, cmp} : testCases[pair[1]] = prompt}
       /\ \A p \in Procs, pair \in batch.pending :
            BatchDispatch(p, pair) /\ ~batch.force =>
               IF Saved(pair[1], pair[2]) # {}
               THEN /\ evals' = evals
                    /\ genCalls' = genCalls
                    /\ pc' = pc
                    /\ \E r \in Saved(pair[1], pair[2]) :
                          [tc |-> pair[1], pv |-> pair[2], res |-> "skipped", out |-> r.out]
                             \in batch'.report
               ELSE /\ genCalls' = genCalls + 1
                    /\ pc'[p] = "generating"
                    /\ run'[p].tc = pair[1]
                    /\ run'[p].pv = pair[2]]_vars

\* A Run All that was not forced skipped one experiment and ran another.
BatchSkipReached ==
    /\ batch.state = "done"
    /\ ~batch.force
    /\ \E r \in batch.report : r.res = "skipped"
    /\ \E r \in batch.report : r.res = "succeeded"

\* A cell of the comparison table is right for its experiment.
CellRight(tc, pv, cell) ==
    IF Saved(tc, pv) = {} THEN cell = NotYetRun ELSE cell \in Saved(tc, pv)

\* C10: the comparison table has exactly one row for each test case of the
\* prompt, whichever experiments have been run; each cell holds a saved result
\* of its experiment when there is one and the not-yet-run marker otherwise.
CompareComplete ==
    table.called =>
       LET owned == {tc \in DOMAIN testCases : testCases[tc] = table.prompt}
           rows == table.rows
       IN /\ Len(rows) = Cardinality(owned)
          /\ {rows[i].testCase : i \in 1..Len(rows)} = owned
          /\ \A i \in 1..Len(rows) :
                /\ CellRight(rows[i].testCase, table.base, rows[i].base)
                /\ CellRight(rows[i].testCase, table.cmp, rows[i].compare)

\* A table with gaps: the first test case run against the base version only,
\* the second not run at all.
CompareGapsReached ==
    /\ table.called
    /\ Len(table.rows) = 2
    /\ table.rows[1].base # NotYetRun
    /\ table.rows[1].compare = NotYetRun
    /\ table.rows[2].base = NotYetRun
    /\ table.rows[2].compare = NotYetRun

\* C11: a comparison leaves the test cases, the versions and the evaluations
\* as they are and makes no call to the LLM; it fails with NotFound exactly
\* when no prompt has the id it is given, whatever the version ids.
ComparePureRead ==
    [][\A prompt \in PromptIds, base \in VersionIds, cmp \in VersionIds :
         CompareCall(prompt, base, cmp) =>
            /\ testCases' = testCases
            /\ tcSeq' = tcSeq
            /\ versions' = versions
            /\ evals' = evals
            /\ genCalls' = genCalls
            /\ pc' = pc
            /\ (ret'.kind = "NotFound") <=> (prompt \notin Prompts)
            /\ table'.called <=> (prompt \in Prompts)
            /\ table'.called =>
                  table'.prompt = prompt /\ table'.base = base /\ table'.cmp = cmp]_vars

\* A comparison for an id that no prompt has failed: no table is shown, and
\* the test cases and the saved results are still there.
CompareNotFoundReached ==
    /\ ~table.called
    /\ ret.kind = "NotFound"
    /\ evals # {}
    /\ \E tc \in DOMAIN testCases : \E r \in evals : r.tc = tc

\* C12: no step changes the template text of a version that exists; a new
\* version is added after those of before with the text it is given; reading a
\* version by id gives its text, and reading the latest version of a prompt
\* gives the text of the prompt's version created last.
VersionsImmutable ==
    [][/\ \A v \in 1..Len(versions) : v <= Len(versions') /\ versions'[v] = versions[v]
       /\ \A prompt \in Prompts, text \in Texts :
             CreateVersion(prompt, text) =>
                /\ Len(versions') = Len(versions) + 1
                /\ versions'[Len(versions')] = [prompt |-> prompt, text |-> text]
       /\ \A v \in 1..Len(versions) :
             GetById(v) => ret'.kind = "version" /\ ret'.out = versions[v].text
       /\ \A prompt \in Prompts :
             GetLatest(prompt) =>
                LET own == {v \in 1..Len(versions) : versions[v].prompt = prompt} IN
                IF own = {} THEN ret'.kind = "NotFound"
                ELSE /\ ret'.kind = "version"
                     /\ \E v \in own : /\ \A w \in own : w <= v
                                       /\ ret'.out = versions[v].text]_vars

\* A prompt's template was saved as "A" and then as "B": the first version
\* still holds "A" and the text read last is "B".
VersionHistoryReached ==
    /\ Len(versions) = 2
    /\ versions[1] = [prompt |-> 1, text |-> "A"]
    /\ versions[2] = [prompt |-> 1, text |-> "B"]
    /\ ret.kind = "version"
    /\ ret.out = "B"

\* C13: a run whose test case or whose prompt version does not exist returns
\* NotFound, makes no call to the LLM, starts nothing and leaves the evaluations
\* table as it is.
RunNotFound ==
    [][\A p \in Procs, pair \in Pairs, force \in BOOLEAN :
         /\ RunStart(p, pair[1], pair[2], force)
         /\ (pair[1] \notin DOMAIN testCases \/ pair[2] \notin 1..Len(versions))
         => /\ ret' = [kind |-> "NotFound", out |-> 0]
            /\ genCalls' = genCalls
            /\ evals' = evals
            /\ pc' = pc
            /\ run' = run]_vars

\* The first test case was run and then deleted, the second test case is
\* there, and a run returned NotFound: nothing was called or written for it.
RunNotFoundReached ==
    /\ AllIdle
    /\ DOMAIN testCases = {2}
    /\ Len(versions) = 1
    /\ genCalls = 1
    /\ evals = {}
    /\ ret = [kind |-> "NotFound", out |-> 0]

\* C14: in every reachable state each row of the evaluations table references a
\* test case that exists and a prompt version that exists, also when a test
\* case is deleted while a run of it is in flight.
NoOrphanEvaluations ==
    \A r \in evals : r.tc \in DOMAIN testCases /\ r.pv \in 1..Len(versions)

\* C15: a test case belongs to its prompt and to no version: saving a new
\* version leaves the test cases as they are, a step that removes a saved
\* result leaves them as they are, and the comparison table of the prompt has
\* a row for each of its test cases whichever versions are compared.
TestCasesOutliveVersions ==
    [][/\ Len(versions') # Len(versions) => testCases' = testCases
       /\ (\E r \in evals : r \notin evals') => testCases' = testCases
       /\ \A base \in 1..MaxVer, cmp \in 1..MaxVer :
             CompareCall(1, base, cmp) =>
                {table'.rows[i].testCase : i \in 1..Len(table'.rows)} =
                   {tc \in DOMAIN testCases : testCases[tc] = 1}]_vars

\* Two versions were saved; the result of the test case for the first version
\* has been removed by a rerun that has not saved yet; the test case is there
\* and the table shows it, not yet run for the first version.
TestCaseReusedReached ==
    /\ Len(versions) = 2
    /\ 1 \in DOMAIN testCases
    /\ pc[1] = "inserting" /\ run[1].tc = 1 /\ run[1].pv = 1
    /\ evals = {[tc |-> 1, pv |-> 2, out |-> 1]}
    /\ table.called /\ table.base = 1 /\ table.cmp = 2
    /\ Len(table.rows) >= 1
    /\ table.rows[1].testCase = 1
    /\ table.rows[1].base = NotYetRun
    /\ table.rows[1].compare = [tc |-> 1, pv |-> 2, out |-> 1]

\* Tokens at which a placeholder starts, stated on the template.
Starts(tpl) ==
    {i \in 1..Len(tpl) : /\ i + 2 <= Len(tpl)
                         /\ tpl[i] = "{{"
                         /\ tpl[i + 1] \in Words
                         /\ tpl[i + 2] = "}}"}

\* What token i of the template contributes to the rendered text, given the
\* tokens at which a placeholder with an input key starts.
Piece(tpl, input, replaced, i) ==
    IF i \in replaced THEN <<input[tpl[i + 1]]>>
    ELSE IF i - 1 \in replaced \/ i - 2 \in replaced THEN <<>>
    ELSE <<tpl[i]>>

RECURSIVE Pieces(_, _, _, _)
Pieces(tpl, input, replaced, n) ==
    IF n = 0 THEN <<>>
    ELSE Pieces(tpl, input, replaced, n - 1) \o Piece(tpl, input, replaced, n)

\* C16: the resolver raises no error for any template and input; each
\* placeholder whose name is an input key is replaced by the key's value, each
\* other placeholder and all other text stays as written; missingInInput is
\* the placeholder names without an input key and missingInTemplate the input
\* keys without a placeholder.
GracefulSubstitution ==
    resolver.called =>
       LET tpl == resolver.tpl
           input == resolver.input
           names == {tpl[i + 1] : i \in Starts(tpl)}
       IN /\ ~resolver.error
          /\ resolver.text =
                Pieces(tpl, input, {i \in Starts(tpl) : tpl[i + 1] \in DOMAIN input}, Len(tpl))
          /\ resolver.missingInInput = names \ DOMAIN input
          /\ resolver.missingInTemplate = DOMAIN input \ names

\* {{user}}{{store}} with user and extra given: John{{store}}, store missing
\* in the input, extra missing in the template.
GracefulSubstitutionReached ==
    /\ resolver.called
    /\ resolver.tpl = <<"{{", "user", "}}", "{{", "store", "}}">>
    /\ DOMAIN resolver.input = {"user", "extra"}
    /\ resolver.input["user"] = "John"
    /\ resolver.input["extra"] = "ignored"
    /\ resolver.text = <<"John", "{{", "store", "}}">>
    /\ resolver.missingInInput = {"store"}
    /\ resolver.missingInTemplate = {"extra"}
    /\ ~resolver.error

\* C20: all placeholders of one variable get the same substitution: the
\* rendered text holds the value of an input key once for each placeholder of
\* a key with that value, and no placeholder of an input key is left in it;
\* with an empty input the rendered text is the template and missingInInput
\* holds every placeholder name of the template.
DuplicatesAndEmptyInput ==
    resolver.called =>
       LET tpl == resolver.tpl
           input == resolver.input
           text == resolver.text
       IN /\ \A v \in Values :
                Cardinality({j \in 1..Len(text) : text[j] = v}) =
                   Cardinality({i \in Starts(tpl) : /\ tpl[i + 1] \in DOMAIN input
                                                     /\ input[tpl[i + 1]] = v})
          /\ \A j \in Starts(text) : text[j + 1] \notin DOMAIN input
          /\ DOMAIN input = {} =>
                /\ text = tpl
                /\ resolver.missingInInput = {tpl[i + 1] : i \in Starts(tpl)}

\* {{user}}{{user}} with user given: both placeholders are replaced.
DuplicatesReached ==
    /\ resolver.called
    /\ resolver.tpl = <<"{{", "user", "}}", "{{", "user", "}}">>
    /\ DOMAIN resolver.input = {"user"}
    /\ resolver.input["user"] = "John"
    /\ resolver.text = <<"John", "John">>

\* C17: during a Run All the number of its calls to the LLM that are in flight
\* never exceeds the concurrency limit it was started with, and a Run All
\* whose experiments fit the calls left in the model ends with an outcome
\* reported for each of its experiments.
BoundedParallelBatch ==
    /\ [](Cardinality({p \in Procs : pc[p] = "generating" /\ run[p].owner = "batch"})
             <= batch.limit)
    /\ (batch.state = "running" /\ genCalls + Cardinality(batch.pending) <= MaxGen)
          ~> (batch.state = "done" /\ ReportedPairs = PairsOfBatch)

\* The limit is one: one call is in flight, another slot is free, and
\* experiments are waiting.
BatchAtLimitReached ==
    /\ batch.state = "running"
    /\ batch.limit = 1
    /\ Cardinality({p \in Procs : pc[p] = "generating" /\ run[p].owner = "batch"}) = 1
    /\ \E p \in Procs : pc[p] = "idle"
    /\ batch.pending # {}
    /\ batch.report # {}

\* C18: a run moves only from not run to running, and from running to
\* succeeded or to failed. It is running exactly while its call to the LLM is
\* in flight: it enters with the one call it makes, and it leaves when the LLM
\* fails, with nothing written, or when the LLM answers, and then saves its
\* row in the two storage steps. Every run that has started ends.
RunStateMachine ==
    /\ [][\A p \in Procs :
            /\ pc[p] = "idle" => pc'[p] \in {"idle", "generating"}
            /\ pc[p] = "generating" => pc'[p] \in {"generating", "deleting", "idle"}
            /\ pc[p] = "deleting" => pc'[p] \in {"deleting", "inserting"}
            /\ pc[p] = "inserting" => pc'[p] \in {"inserting", "idle"}
            /\ pc[p] = "idle" /\ pc'[p] = "generating" =>
                  genCalls' = genCalls + 1 /\ run'[p].call = genCalls'
            /\ pc[p] # "idle" /\ pc'[p] # "idle" =>
                  /\ run'[p].call = run[p].call
                  /\ run'[p].tc = run[p].tc
                  /\ run'[p].pv = run[p].pv
            /\ pc[p] = "generating" /\ pc'[p] = "idle" => evals' = evals
            /\ pc[p] = "inserting" /\ pc'[p] = "idle" =>
                  [tc |-> run[p].tc, pv |-> run[p].pv, out |-> run[p].call] \in evals']_vars
    /\ [][genCalls' # genCalls =>
            \E p \in Procs : pc[p] = "idle" /\ pc'[p] = "generating"]_vars
    /\ \A p \in Procs : (pc[p] # "idle") ~> (pc[p] = "idle")

\* One run has saved the result of the second call while an earlier run is
\* still waiting for the LLM.
RunStatesReached ==
    /\ pc[1] = "generating"
    /\ run[1].call = 1
    /\ pc[2] = "idle"
    /\ genCalls = 2
    /\ \E r \in evals : r.out = 2

\* C19: a step of a run, whether the run succeeds, fails or is abandoned,
\* leaves the rows of every pair other than its own as they are, whatever
\* other runs are in flight.
RunTouchesOwnPairOnly ==
    [][\A p \in Procs :
         pc'[p] # pc[p] \/ run'[p] # run[p] =>
            LET own == IF pc[p] = "idle" THEN <<run'[p].tc, run'[p].pv>>
                       ELSE <<run[p].tc, run[p].pv>>
            IN \A pair \in Pairs \ {own} :
                  SavedNext(pair[1], pair[2]) = Saved(pair[1], pair[2])]_vars

\* Both versions have a result for the test case; a rerun against the first
\* version has deleted its old row and not yet saved: the row of the second
\* version is as it was.
OtherPairKeptReached ==
    /\ pc[1] = "inserting"
    /\ run[1].tc = 1 /\ run[1].pv = 1 /\ run[1].call = 3
    /\ pc[2] = "idle"
    /\ evals = {[tc |-> 1, pv |-> 2, out |-> 2]}


\* Position of a note on the scale: seven names to an octave.
Rank(note) == note.octave * 7 + IndexOf(note.name)

WellFormed(note) == IndexOf(note.name) # -1

\* The notes from startNote to endNote inclusive, each once, ascending.
Ascending(startNote, endNote) ==
    [k \in 1..(Rank(endNote) - Rank(startNote) + 1) |->
        Note(noteNames[((Rank(startNote) + k - 1) % 7) + 1],
             (Rank(startNote) + k - 1) \div 7)]

\* C25: generateNoteRange returns for every pair of well-formed notes; when the
\* start is not above the end the result is every note from start to end
\* inclusive, once each and ascending, the octave going up after each "b"
\* (f/3 to e/6 is 21 notes, c/2 to e/4 is 17); when the start name is not one
\* of c, d, e, f, g, a, b the result is the empty list.
NoteRangeTotal ==
    /\ <>(range.pc = "done")
    /\ [](range.pc = "done" =>
            /\ (WellFormed(range.startNote) /\ WellFormed(range.endNote)
                /\ Rank(range.startNote) <= Rank(range.endNote))
               => range.notes = Ascending(range.startNote, range.endNote)
            /\ (range.startNote = Note("f", 3) /\ range.endNote = Note("e", 6))
               => Len(range.notes) = 21 /\ range.notes = trebleNotes
            /\ (range.startNote = Note("c", 2) /\ range.endNote = Note("e", 4))
               => Len(range.notes) = 17 /\ range.notes = bassNotes
            /\ ~WellFormed(range.startNote) => range.notes = <<>>)

\* The treble range has been computed: 21 notes, across three "b" to "c" steps.
TrebleRangeReached ==
    /\ range.pc = "done"
    /\ range.startNote = Note("f", 3)
    /\ range.endNote = Note("e", 6)
    /\ Len(range.notes) = 21
    /\ range.notes[4] = Note("b", 3)
    /\ range.notes[5] = Note("c", 4)
    /\ range.notes[21] = Note("e", 6)


\* A step that ran generateNewNote: the mount, a clef radio, or a new-note timer.
NewNoteStep ==
    \/ Mounted
    \/ \E clef \in {"treble", "bass"} : ClefChange(clef)
    \/ FireNewNote

\* C23: after every call of generateNewNote the note on display differs from
\* previousNote, and previousNote is the note that was on display just before
\* the call.
NeverSameNoteTwice ==
    [][NewNoteStep =>
        /\ quiz'.currentNote # quiz'.previousNote
        /\ quiz'.previousNote = quiz.currentNote]_vars

\* A drawn note has been replaced by another one and nothing is pending.
NoteReplacedReached ==
    /\ quiz.mounted
    /\ quiz.previousNote \notin {NoNote, C4}
    /\ quiz.currentNote # quiz.previousNote
    /\ quiz.feedback = "waiting"
    /\ quiz.timers = <<>>


\* The notes of a pool, as a set.
PoolOf(clef) == {notePool(clef)[i] : i \in 1..Len(notePool(clef))}

HasTimer(kind) == \E i \in 1..Len(quiz.timers) : quiz.timers[i].kind = kind

\* The callback that runs next is of this kind.
Due(kind) == \E i \in 1..Len(quiz.timers) : TimerDue(i) /\ quiz.timers[i].kind = kind

\* C22: in every reachable state the note on display is in the pool of the
\* clef on display (treble f/3 to e/6, bass c/2 to e/4), and after every call
\* of generateNewNote the clef on display is the clef setting, also when the
\* clef radio is changed while a new-note timer is pending.
NoteInPoolOfClef ==
    /\ [](quiz.currentNote \in PoolOf(quiz.currentClef))
    /\ [][NewNoteStep => quiz'.currentClef = quiz'.clefSetting]_vars

\* The clef was changed to bass while a new-note timer was pending: a note
\* that only the bass pool has is on display, and the timer has not run yet.
ClefChangedWhilePendingReached ==
    /\ quiz.clefSetting = "bass"
    /\ quiz.currentClef = "bass"
    /\ quiz.currentNote \in PoolOf("bass") \ PoolOf("treble")
    /\ quiz.previousNote \in PoolOf("treble") \ PoolOf("bass")
    /\ HasTimer("newNote")


\* C24: provided timers fire, every guess is eventually followed by feedback
\* "waiting": a correct guess schedules a new-note timer and is eventually
\* followed by another note on display with feedback "waiting", an incorrect
\* guess leaves the note on display as it is and is eventually followed by
\* feedback "waiting".
GuessEventuallyWaiting ==
    /\ [][\A guess \in {noteNames[i] : i \in 1..Len(noteNames)} :
            (Guess(guess) /\ quiz.feedback # "correct") =>
                /\ quiz'.currentNote = quiz.currentNote
                /\ IF guess = quiz.currentNote.name
                   THEN quiz'.feedback = "correct" /\ HasTimer("newNote")'
                   ELSE quiz'.feedback = "incorrect" /\ HasTimer("reset")']_vars
    /\ [][FireNewNote =>
            quiz'.feedback = "waiting" /\ quiz'.currentNote # quiz.currentNote]_vars
    /\ (quiz.feedback # "waiting") ~> (quiz.feedback = "waiting")
    /\ [][(Due("newNote") /\ Len(quiz'.timers) < Len(quiz.timers)) => FireNewNote]_vars
    /\ HasTimer("newNote") ~> Due("newNote")
    /\ Due("newNote") ~> ~Due("newNote")

\* A correct guess has been answered by a new note, and an incorrect guess on
\* that note is waiting for its reset.
GuessesAnsweredReached ==
    /\ quiz.feedback = "incorrect"
    /\ HasTimer("reset")
    /\ ~HasTimer("newNote")
    /\ quiz.previousNote \notin {NoNote, C4}


\* The new-note timers that are pending.
NewNoteTimers == {i \in 1..Len(quiz.timers) : quiz.timers[i].kind = "newNote"}

\* C21: once a correct guess has set feedback to "correct", feedback stays
\* "correct" and every further guess is ignored until the scheduled
\* generateNewNote runs, so that one correct answer advances the note once:
\* while a new-note timer is pending, feedback is "correct" and no second
\* new-note timer is pending, for every interleaving of guesses with the
\* 600 ms and 800 ms timers.
CorrectHeldUntilNewNote ==
    NewNoteTimers # {} =>
        /\ quiz.feedback = "correct"
        /\ Cardinality(NewNoteTimers) = 1

====
